---------------------------- MODULE Spec2Model ----------------------------
(***************************************************************************)
(* Loan financial-state engine of KrediApp (src/components/Loans.tsx).     *)
(*                                                                         *)
(* Money is counted in integer cents.  A calendar date is the number of    *)
(* days since 1 January of BaseYear; an ISO string is a record holding the *)
(* civil date written before the 'T' and the time-of-day written after it. *)
(***************************************************************************)
EXTENDS Integers, Sequences, FiniteSets, TLC

(***************************************************************************)
(* Bounds of the model.                                                    *)
(***************************************************************************)
MaxLoans == 2          \* loans in the collection
MaxHist == 2           \* entries per history log
MaxTxns == 3           \* transactions recorded
MaxInterestPayments == 2   \* interest-only payments in one loan's history
MaxDeletions == 2      \* entries of the deletion history
MaxFormEdits == 3      \* uses of the loan form in a behaviour of SpecForm
MaxLoanEdits == 2      \* uses of the loan form in a behaviour of SpecEdit
MaxLedgerEdits == 1    \* uses of the loan form in a behaviour of SpecLedger
MaxPageEdits == 1      \* uses of the loan form in a behaviour of Spec
MaxCents == 120        \* largest amount_to_receive SpecGen starts from, in cents
MaxN == 4              \* largest installment count SpecGen starts from
MaxGenerations == 2    \* uses of the generate button in a behaviour of SpecGen

(***************************************************************************)
(* Calendar: JavaScript Date arithmetic on local-midnight dates.           *)
(***************************************************************************)
BaseYear == 2024
LastYear == 2027
Years == BaseYear..LastYear

IsLeap(y) == (y % 4 = 0 /\ y % 100 # 0) \/ y % 400 = 0

\* m is a JavaScript month, 0..11
DaysInMonth(y, m) ==
    IF m = 1 THEN (IF IsLeap(y) THEN 29 ELSE 28)
    ELSE IF m \in {3, 5, 8, 10} THEN 30 ELSE 31

RECURSIVE DaysBeforeMonth(_, _)
DaysBeforeMonth(y, m) ==
    IF m = 0 THEN 0 ELSE DaysBeforeMonth(y, m - 1) + DaysInMonth(y, m - 1)

RECURSIVE DaysBeforeYear(_)
DaysBeforeYear(y) ==
    IF y <= BaseYear THEN 0
    ELSE DaysBeforeYear(y - 1) + (IF IsLeap(y - 1) THEN 366 ELSE 365)

\* new Date(y, m, d): month and day overflow are normalised as JavaScript
\* does (MakeDay): month 12 is January of the next year, day 0 is the last
\* day of the previous month, day 31 of a 30-day month is the 1st of the next.
MakeDay(y, m, d) ==
    DaysBeforeYear(y + (m \div 12)) + DaysBeforeMonth(y + (m \div 12), m % 12) + d - 1

getFullYear(n) == CHOOSE y \in Years : MakeDay(y, 0, 1) <= n /\ n < MakeDay(y + 1, 0, 1)
getMonth(n) ==
    LET y == getFullYear(n)
    IN  CHOOSE m \in 0..11 : MakeDay(y, m, 1) <= n /\ n < MakeDay(y, m + 1, 1)
getDate(n) == n - MakeDay(getFullYear(n), getMonth(n), 1) + 1

\* Date.prototype.setMonth(m): same year and day-of-month, month m (m may be
\* 12 or more), overflowing into the following month when the day is missing.
setMonth(n, m) == MakeDay(getFullYear(n), m, getDate(n))

\* Date.prototype.setDate(0): the last day of the previous month.
setDateZero(n) == MakeDay(getFullYear(n), getMonth(n), 0)

(***************************************************************************)
(* ISO strings.  t is the text after the date part: "" for a bare          *)
(* 'YYYY-MM-DD' (what an <input type=date> yields), otherwise the UTC time *)
(* printed by toISOString().                                               *)
(***************************************************************************)
NoDate == [day |-> 0, t |-> "undefined"]
BareDate(n) == [day |-> n, t |-> ""]

\* isoString.split('T')[0] re-read as a local midnight: `new Date(s.split('T')[0] + 'T00:00:00')`
ParseLocalMidnight(s) == s.day

\* Date.prototype.toISOString() of a local midnight.  The host clock is UTC-3
\* (Brasilia) or west of Greenwich in general when hostTZ = "west": local
\* midnight is 03:00Z of the same civil day.  East of Greenwich (hostTZ =
\* "east", UTC+3) local midnight is 21:00Z of the previous civil day.
LocalMidnightToISOString(n, tz) ==
    IF tz = "east" THEN [day |-> n - 1, t |-> "T21:00:00.000Z"]
    ELSE [day |-> n, t |-> "T03:00:00.000Z"]

\* new Date(s).getTime() compared between strings, then toISOString(): a bare
\* date is parsed as UTC midnight, a full ISO string as the instant it names.
\* Instants are measured in hours; day 0 of the model lies a day after the
\* origin, so that every instant of the model is positive as it is in the code.
Hours(s) ==
    (s.day + 1) * 24 + (IF s.t = "T03:00:00.000Z" THEN 3
                  ELSE IF s.t = "T21:00:00.000Z" THEN 21 ELSE 0)
InstantToISOString(h) ==
    [day |-> (h \div 24) - 1,
     t |-> IF h % 24 = 3 THEN "T03:00:00.000Z"
           ELSE IF h % 24 = 21 THEN "T21:00:00.000Z" ELSE "T00:00:00.000Z"]

(***************************************************************************)
(* Values of the Loan and InstallmentDetail types.                         *)
(***************************************************************************)
PagamentoUnico == "Pagamento Unico (Principal + Juros)"
JurosMensal == "Juros Mensal (+ Principal no final)"
Parcelado == "Parcelado (Principal + Juros em X vezes)"
MODALITIES == {PagamentoUnico, JurosMensal, Parcelado}
LoanStatus == {"pending", "paid", "overdue"}

\* an optional number that is absent (`undefined`)
Undefined == -1000000
\* the JavaScript truthiness of an optional number
Truthy(x) == x # Undefined /\ x # 0
\* the JavaScript truthiness of an optional date string
HasDate(s) == s.t # "undefined" /\ s.t # "empty"
\* the value '' of a cleared <input type=date>
EmptyDate == [day |-> 0, t |-> "empty"]

RECURSIVE SumAmounts(_)
SumAmounts(insts) ==
    IF insts = <<>> THEN 0 ELSE insts[1].amount + SumAmounts(Tail(insts))

SetMax(S) == CHOOSE x \in S : \A y \in S : y <= x

AllPaid(insts) == \A k \in 1..Len(insts) : insts[k].status = "paid"

(***************************************************************************)
(* getDynamicStatus, Loans.tsx:48-71.  today is getTodayInBrasilia().      *)
(***************************************************************************)
getDynamicStatus(loan, tdy) ==
    IF loan.status = "paid" THEN "paid"
    ELSE IF /\ loan.modality = Parcelado
            /\ loan.installments_details # <<>>
            /\ \E k \in 1..Len(loan.installments_details) :
                  /\ loan.installments_details[k].status = "pending"
                  /\ ParseLocalMidnight(loan.installments_details[k].due_date) < tdy
         THEN "overdue"
    ELSE IF ParseLocalMidnight(loan.due_date) < tdy THEN "overdue"
    ELSE "pending"

\* isFullyPaid of loansWithStatus / filteredLoans, Loans.tsx:230 and 238.
\* `installments_details?.every(...)` is undefined (falsy) without a schedule.
isFullyPaid(loan) ==
    IF loan.modality = Parcelado
    THEN loan.installments_details # <<>> /\ AllPaid(loan.installments_details)
    ELSE loan.status = "paid"

\* effectiveStatus attached by loansWithStatus, Loans.tsx:229-233: the status
\* the list filter uses.
ListEffectiveStatus(loan, tdy) ==
    IF isFullyPaid(loan) THEN "paid" ELSE getDynamicStatus(loan, tdy)

\* effectiveStatus of LoanCard, Loans.tsx:78: the status the card shows.
CardEffectiveStatus(loan, tdy) == getDynamicStatus(loan, tdy)

(***************************************************************************)
(* The views.  filteredLoans, Loans.tsx:236-266, with an empty search box: *)
(* the positions in `ls` of the loans the list shows under a status        *)
(* filter (the sort by due date does not change which loans are shown).    *)
(* financialSummary of the dashboard, Loans.tsx:1211-1260, which receives  *)
(* the same loans (constants.ts:237).                                      *)
(***************************************************************************)
StatusFilters == {"open", "paid", "pending", "overdue", "archived"}

MatchesView(loan, statusFilter, tdy) ==
    /\ IF statusFilter = "archived" THEN loan.is_archived ELSE ~loan.is_archived
    /\ CASE statusFilter = "open" -> ~isFullyPaid(loan)
         [] statusFilter = "paid" -> isFullyPaid(loan)
         [] statusFilter = "archived" -> TRUE
         [] OTHER -> ListEffectiveStatus(loan, tdy) = statusFilter /\ ~isFullyPaid(loan)

filteredLoans(ls, statusFilter, tdy) ==
    {i \in 1..Len(ls) : MatchesView(ls[i], statusFilter, tdy)}

openLoans(ls) == {i \in 1..Len(ls) : ls[i].status # "paid"}

pendingLoans(ls, tdy) ==
    {i \in openLoans(ls) : ParseLocalMidnight(ls[i].due_date) >= tdy}

overdueLoans(ls, tdy) ==
    {i \in openLoans(ls) : ParseLocalMidnight(ls[i].due_date) < tdy}

RECURSIVE SumToReceive(_, _)
SumToReceive(ls, S) ==
    IF S = {} THEN 0
    ELSE LET i == CHOOSE x \in S : TRUE
         IN  ls[i].amount_to_receive + SumToReceive(ls, S \ {i})

totalReceivables(ls) == SumToReceive(ls, openLoans(ls))

(***************************************************************************)
(* calculateDaysOverdue (Shared) and calculateInstallmentDueInfo,          *)
(* Loans.tsx:26-46.                                                        *)
(***************************************************************************)
calculateDaysOverdue(s, tdy) ==
    IF ~HasDate(s) THEN 0
    ELSE IF ParseLocalMidnight(s) >= tdy THEN 0
    ELSE tdy - ParseLocalMidnight(s)

InstallmentTotalDue(inst, loan, tdy) ==
    IF inst.status = "paid" THEN 0
    ELSE inst.amount
         + (IF ParseLocalMidnight(inst.due_date) < tdy
            THEN (tdy - ParseLocalMidnight(inst.due_date))
                 * (IF loan.daily_late_fee_amount = Undefined THEN 0
                    ELSE loan.daily_late_fee_amount)
            ELSE 0)

(***************************************************************************)
(* calculateCurrentOutstandingBalance, constants.ts:403-441.  The fee of   *)
(* an overdue date is whole days late times `daily_late_fee_amount || 0`.  *)
(***************************************************************************)
LateFee(due, loan, tdy) ==
    IF ParseLocalMidnight(due) < tdy
    THEN (tdy - ParseLocalMidnight(due))
         * (IF Truthy(loan.daily_late_fee_amount) THEN loan.daily_late_fee_amount ELSE 0)
    ELSE 0

RECURSIVE ReduceInstallments(_, _, _)
ReduceInstallments(insts, loan, tdy) ==
    IF insts = <<>> THEN 0
    ELSE (IF insts[1].status = "paid" THEN 0
          ELSE insts[1].amount + LateFee(insts[1].due_date, loan, tdy))
         + ReduceInstallments(Tail(insts), loan, tdy)

OpenBalanceWithoutPrincipal(loan, tdy) ==
    IF loan.modality = Parcelado /\ loan.installments_details # <<>>
    THEN ReduceInstallments(loan.installments_details, loan, tdy)
    ELSE loan.amount_to_receive + LateFee(loan.due_date, loan, tdy)

\* lines 408-440: the balance of a loan that is neither paid nor archived
OpenBalance(loan, tdy) ==
    IF loan.modality = Parcelado /\ loan.installments_details # <<>>
    THEN ReduceInstallments(loan.installments_details, loan, tdy)
    ELSE IF loan.modality = JurosMensal
    THEN loan.amount_borrowed + loan.amount_to_receive + LateFee(loan.due_date, loan, tdy)
    ELSE loan.amount_to_receive + LateFee(loan.due_date, loan, tdy)

BalanceIgnoringArchive(loan, tdy) ==
    IF loan.status = "paid" THEN 0 ELSE OpenBalance(loan, tdy)

calculateCurrentOutstandingBalance(loan, tdy) ==
    IF loan.status = "paid" \/ loan.is_archived THEN 0 ELSE OpenBalance(loan, tdy)

(***************************************************************************)
(* Double-precision arithmetic.  Amounts are JavaScript numbers; in whole  *)
(* cents every sum and difference the engine makes is exact once printed   *)
(* with toFixed(2), but Math.floor((A / N) * 100) is not: for the pairs    *)
(* <<cents of A, N>> below the double product falls just under the exact   *)
(* integer quotient and the floor is one cent lower (0.21 / 3 * 100 is     *)
(* 6.999999999999999, -1.10 / 2 * 100 is -55.00000000000001).  The table   *)
(* lists every such pair with -4.00 <= A <= 4.00 and N <= 6.  The total    *)
(* that handleInstallmentDetailChange stores is a sum of doubles that is   *)
(* not rounded; for the values the form of this model can hold it is the   *)
(* double nearest to its whole-cent value.                                 *)
(***************************************************************************)
DoubleFloorLoss ==
    {
      <<21, 3>>, <<29, 1>>, <<35, 5>>, <<42, 3>>, <<42, 6>>, <<57, 1>>,
      <<57, 3>>, <<58, 1>>, <<58, 2>>, <<70, 5>>, <<84, 3>>, <<84, 6>>,
      <<87, 3>>, <<113, 1>>, <<114, 1>>, <<114, 2>>, <<114, 3>>,
      <<114, 6>>, <<115, 1>>, <<116, 1>>, <<116, 2>>, <<116, 4>>,
      <<117, 3>>, <<140, 5>>, <<145, 5>>, <<165, 3>>, <<165, 5>>,
      <<168, 3>>, <<168, 6>>, <<171, 3>>, <<174, 3>>, <<174, 6>>,
      <<201, 1>>, <<203, 1>>, <<205, 1>>, <<207, 1>>, <<226, 1>>,
      <<226, 2>>, <<228, 1>>, <<228, 2>>, <<228, 3>>, <<228, 4>>,
      <<228, 6>>, <<230, 1>>, <<230, 2>>, <<232, 1>>, <<232, 2>>,
      <<232, 4>>, <<234, 3>>, <<234, 6>>, <<251, 1>>, <<253, 1>>,
      <<255, 1>>, <<280, 5>>, <<290, 5>>, <<330, 3>>, <<330, 5>>,
      <<330, 6>>, <<336, 3>>, <<336, 6>>, <<342, 3>>, <<342, 6>>,
      <<348, 3>>, <<348, 6>>,
      <<-345, 3>>, <<-339, 3>>, <<-333, 3>>, <<-327, 3>>, <<-297, 3>>,
      <<-295, 5>>, <<-291, 3>>, <<-285, 5>>, <<-275, 5>>, <<-249, 1>>,
      <<-247, 1>>, <<-245, 1>>, <<-245, 5>>, <<-243, 1>>, <<-224, 1>>,
      <<-224, 2>>, <<-224, 4>>, <<-222, 1>>, <<-222, 2>>, <<-222, 3>>,
      <<-222, 6>>, <<-220, 1>>, <<-220, 2>>, <<-220, 4>>, <<-220, 5>>,
      <<-218, 1>>, <<-218, 2>>, <<-216, 3>>, <<-216, 6>>, <<-210, 5>>,
      <<-112, 1>>, <<-112, 2>>, <<-112, 4>>, <<-111, 1>>, <<-111, 3>>,
      <<-110, 1>>, <<-110, 2>>, <<-110, 5>>, <<-109, 1>>, <<-108, 3>>,
      <<-108, 6>>, <<-105, 5>>, <<-56, 1>>, <<-56, 2>>, <<-56, 4>>,
      <<-55, 1>>, <<-55, 5>>, <<-54, 3>>, <<-54, 6>>, <<-28, 1>>,
      <<-28, 2>>, <<-28, 4>>, <<-27, 3>>, <<-14, 1>>, <<-14, 2>>,
      <<-7, 1>>
    }

\* standardInstallment, Loans.tsx:621, in cents
standardInstallment(amount_to_receive, installments) ==
    (amount_to_receive \div installments)
    - (IF <<amount_to_receive, installments>> \in DoubleFloorLoss THEN 1 ELSE 0)

\* the due date of installment i (0-based), Loans.tsx:625-631
InstallmentDueDay(firstDueDate, i) ==
    LET currentMonth == getMonth(firstDueDate)
        moved == setMonth(firstDueDate, currentMonth + i)
    IN  IF getMonth(moved) # (currentMonth + i) % 12 THEN setDateZero(moved)
        ELSE moved

\* the loop body of Loans.tsx:624-646
NewInstallment(i, amount_to_receive, installments, firstDueDate, tz) ==
    [installment_number |-> i + 1,
     amount |-> IF i = installments - 1
                THEN amount_to_receive
                     - (installments - 1) * standardInstallment(amount_to_receive, installments)
                ELSE standardInstallment(amount_to_receive, installments),
     due_date |-> LocalMidnightToISOString(InstallmentDueDay(firstDueDate, i), tz),
     status |-> "pending",
     payment_date |-> NoDate,
     amount_paid |-> Undefined]

\* newInstallments, Loans.tsx:618-646
NewInstallments(amount_to_receive, installments, due_date, tz) ==
    [k \in 1..installments |->
        NewInstallment(k - 1, amount_to_receive, installments,
                       ParseLocalMidnight(due_date), tz)]

\* the guard of the updater, Loans.tsx:613-616
CanGenerate(prev) ==
    /\ prev.modality = Parcelado
    /\ Truthy(prev.installments)
    /\ Truthy(prev.amount_to_receive)
    /\ HasDate(prev.due_date)

\* the state updater of handleGenerateInstallments, Loans.tsx:612-654, for a
\* positive installment count
GenerateUpdaterKeepingStatus(prev, tz) ==
    IF ~CanGenerate(prev) THEN prev
    ELSE LET newInstallments ==
                 NewInstallments(prev.amount_to_receive, prev.installments, prev.due_date, tz)
         IN  [prev EXCEPT !.installments_details = newInstallments,
                          !.due_date = newInstallments[Len(newInstallments)].due_date]

GenerateUpdater(prev, tz) ==
    IF ~CanGenerate(prev) THEN prev
    ELSE LET newInstallments ==
                 NewInstallments(prev.amount_to_receive, prev.installments, prev.due_date, tz)
         IN  [prev EXCEPT !.installments_details = newInstallments,
                          !.due_date = newInstallments[Len(newInstallments)].due_date,
                          !.status = "pending"]

(***************************************************************************)
(* handleInstallmentDetailChange, Loans.tsx:657-706: the state updater.    *)
(* index is 1-based here; field is due_date, amount or status.             *)
(***************************************************************************)
LatestDueDay(insts) ==
    SetMax({ParseLocalMidnight(insts[k].due_date) : k \in 1..Len(insts)})

LastPaymentInstant(insts) ==
    SetMax({0} \cup {IF HasDate(insts[k].payment_date) THEN Hours(insts[k].payment_date) ELSE 0 :
                       k \in 1..Len(insts)})

AnyPendingOverdue(insts, tdy) ==
    \E k \in 1..Len(insts) :
        insts[k].status = "pending" /\ ParseLocalMidnight(insts[k].due_date) < tdy

InstallmentDetailUpdater(prev, index, field, value, tdy, tz) ==
    IF prev.installments_details = <<>> THEN prev
    ELSE LET newInstallments ==
                 [prev.installments_details EXCEPT ![index] = [@ EXCEPT ![field] = value]]
             withAmount ==
                 IF field = "amount"
                 THEN [prev EXCEPT !.installments_details = newInstallments,
                                   !.amount_to_receive = SumAmounts(newInstallments)]
                 ELSE [prev EXCEPT !.installments_details = newInstallments]
             withDue ==
                 [withAmount EXCEPT !.due_date =
                     LocalMidnightToISOString(LatestDueDay(newInstallments), tz)]
         IN  IF AllPaid(newInstallments)
             THEN [withDue EXCEPT
                     !.status = "paid",
                     !.payment_date =
                         IF LastPaymentInstant(newInstallments) > 0
                         THEN InstantToISOString(LastPaymentInstant(newInstallments))
                         ELSE @]
             ELSE [withDue EXCEPT
                     !.payment_date = NoDate,
                     !.status = IF AnyPendingOverdue(newInstallments, tdy)
                                THEN "overdue" ELSE "pending"]

(***************************************************************************)
(* handleFormChange, Loans.tsx:547-578: the state updater for the update   *)
(* {[name]: value} built by handleGenericChange and handleCurrencyChange.  *)
(***************************************************************************)
\* calculatedAmountToReceive with the principal included for every modality
calculatedAmountWithPrincipal(amount_borrowed, interest_rate, modality) ==
    IF amount_borrowed # Undefined /\ interest_rate # Undefined
    THEN (amount_borrowed * (100 + interest_rate)) \div 100
    ELSE 0

calculatedAmountToReceive(amount_borrowed, interest_rate, modality) ==
    IF amount_borrowed # Undefined /\ interest_rate # Undefined
    THEN IF modality = JurosMensal
         THEN (amount_borrowed * interest_rate) \div 100
         ELSE (amount_borrowed * (100 + interest_rate)) \div 100
    ELSE 0

FormChangeUpdater(prev, name, value) ==
    LET newState == [prev EXCEPT ![name] = value]
        computed == [newState EXCEPT !.amount_to_receive =
                        calculatedAmountToReceive(newState.amount_borrowed,
                                                  newState.interest_rate,
                                                  newState.modality)]
    IN  IF name = "modality" /\ value # Parcelado
        THEN [computed EXCEPT !.installments = Undefined, !.installments_details = <<>>]
        ELSE computed

(***************************************************************************)
(* Inputs of the model: the days a user types or picks, the values of the  *)
(* form fields, the clients and the accounts.                              *)
(***************************************************************************)
Day20241231 == MakeDay(2024, 11, 31)
Day20250102 == MakeDay(2025, 0, 2)
Day20250110 == MakeDay(2025, 0, 10)
Day20250115 == MakeDay(2025, 0, 15)
Day20250131 == MakeDay(2025, 0, 31)
Day20250215 == MakeDay(2025, 1, 15)

ClockDays == {Day20250115, Day20250215}
FormDays == {Day20250110, Day20250131}
PaymentDays == {Day20250102, Day20250215}

\* MOCK_CLIENTS and MOCK_ACCOUNTS, constants.ts:42-59, cut down to one each
ClientName(clientId) ==
    IF clientId = "client-1" THEN "Wendel Pettz" ELSE "Cliente nao encontrado"

MockAccounts == << [id |-> "acc-1", is_archived |-> FALSE] >>
MockTransactions ==
    << [accountId |-> "acc-1", client |-> "", installment |-> 0, interest |-> FALSE,
        amount |-> 500, type |-> "credit", date |-> BareDate(Day20250102)] >>

\* the {[name]: value} updates the inputs of the form can produce
FormUpdates ==
    ({"clientId"} \X {"client-1"})
    \cup ({"account_id"} \X {""})
    \cup ({"modality"} \X MODALITIES)
    \cup ({"installments"} \X {-1, 3})
    \cup ({"amount_borrowed"} \X {-200, 200})
    \cup ({"interest_rate"} \X {Undefined, 20})
    \cup ({"due_date"} \X {BareDate(d) : d \in FormDays})
    \cup ({"status"} \X {"pending", "paid"})
    \cup ({"observation"} \X {"obs"})

\* the edits of one installment row, Loans.tsx:831-842
DetailUpdates ==
    ({"due_date"} \X {BareDate(d) : d \in FormDays})
    \cup ({"amount"} \X {50})
    \cup ({"status"} \X {"pending", "paid"})

(***************************************************************************)
(* State.                                                                  *)
(***************************************************************************)
VARIABLES
    loans,            \* Loan[] of App, newest first
    transactions,     \* Transaction[] of App, newest first
    deletionHistory,  \* DeletionRecord[] of App
    accounts,         \* Account[] of App
    today,            \* getTodayInBrasilia()
    hostTZ,           \* which side of Greenwich the host clock is on
    keyboardUse,      \* the user also works the page with the keyboard
    isModalOpen,      \* LoansPage.isModalOpen
    editingLoan,      \* LoansPage.editingLoan
    formData,         \* LoanModal.formData
    editsLeft,        \* uses of the loan form the behaviour may still make
    nextId,           \* number of the next loan created
    appCrashed,       \* a state updater threw: React unmounted the page
    alertShown        \* the message alert() displayed in the last step, or ""

pageVars == <<loans, transactions, deletionHistory, accounts>>
formVars == <<isModalOpen, editingLoan, formData>>
envVars == <<today, hostTZ, keyboardUse, nextId, appCrashed>>
vars == <<loans, transactions, deletionHistory, accounts, today, hostTZ,
          keyboardUse, isModalOpen, editingLoan, formData, editsLeft, nextId, appCrashed,
          alertShown>>

\* The dialogs are drawn over the page (Modal, part_002:112-136) and keep the
\* pointer from the cards; the focus is not trapped and the page is not made
\* inert, so the buttons of the cards stay in reach of the keyboard
CardsInReach == ~isModalOpen \/ keyboardUse

\* no loan: the null of editingLoan and the {} of a form that is not open
NoLoan ==
    [id |-> 0, clientId |-> "", clientName |-> "", account_id |-> "",
     amount_borrowed |-> Undefined, amount_to_receive |-> Undefined,
     interest_rate |-> Undefined, daily_late_fee_amount |-> Undefined,
     date |-> NoDate, due_date |-> NoDate, payment_date |-> NoDate,
     status |-> "undefined", is_in_negotiation |-> FALSE, modality |-> "undefined",
     installments |-> Undefined, installments_details |-> <<>>,
     promise_history |-> <<>>, due_date_history |-> <<>>,
     interest_payments_history |-> <<>>, observation |-> "", is_archived |-> FALSE]

\* the form of a new loan, Loans.tsx:533-542
NewLoanForm(tdy, accs) ==
    [NoLoan EXCEPT !.status = "pending",
                   !.interest_rate = 10,
                   !.daily_late_fee_amount = 100,
                   !.modality = PagamentoUnico,
                   !.date = BareDate(tdy),
                   !.account_id = IF Len(accs) > 0 THEN accs[1].id ELSE ""]

(***************************************************************************)
(* Initial state: the page holds one loan saved earlier from the loan      *)
(* form, of one of the three modalities (MOCK_LOANS, constants.ts:67-92,   *)
(* has loans of this shape with larger amounts).                           *)
(***************************************************************************)
SeedForm(modality, tz) ==
    LET f0 == NewLoanForm(Day20250102, MockAccounts)
        f1 == FormChangeUpdater(f0, "clientId", "client-1")
        f2 == FormChangeUpdater(f1, "modality", modality)
        f3 == FormChangeUpdater(f2, "amount_borrowed", 100)
        f4 == FormChangeUpdater(f3, "due_date", BareDate(Day20250131))
        f5 == FormChangeUpdater(f4, "installments", 2)
    IN  IF modality = Parcelado THEN GenerateUpdater(f5, tz) ELSE f4

SeedLoan(modality, tz) ==
    [SeedForm(modality, tz) EXCEPT !.id = 1, !.clientName = ClientName("client-1")]

InitWith(allowance) ==
    /\ (hostTZ = "west" \/ hostTZ = "east")
    /\ keyboardUse = FALSE
    /\ \E m \in MODALITIES : loans = << SeedLoan(m, hostTZ) >>
    /\ transactions = MockTransactions
    /\ deletionHistory = <<>>
    /\ accounts = MockAccounts
    /\ today = Day20250115
    /\ isModalOpen = FALSE
    /\ editingLoan = NoLoan
    /\ formData = NoLoan
    /\ editsLeft = allowance
    /\ nextId = 2
    /\ appCrashed = FALSE
    /\ alertShown = ""

Init == InitWith(MaxPageEdits)

(***************************************************************************)
(* The clock: getTodayInBrasilia() returns a later day.                    *)
(***************************************************************************)
AdvanceClock ==
    /\ ~appCrashed
    /\ \E d \in ClockDays : d > today /\ today' = d
    /\ UNCHANGED <<pageVars, formVars, editsLeft, hostTZ, keyboardUse, nextId, appCrashed>>
    /\ alertShown' = ""

(***************************************************************************)
(* The loan form (LoanModal).  A closed form keeps formData and            *)
(* editingLoan in the code; both are overwritten before they are read      *)
(* again (openModalForNew/openModalForEdit, Loans.tsx:402-403, and the     *)
(* effect of Loans.tsx:528-545), so closing resets them here.              *)
(***************************************************************************)
openModalForNew ==
    /\ ~appCrashed /\ ~isModalOpen
    /\ editsLeft > 0
    /\ isModalOpen' = TRUE
    /\ editingLoan' = NoLoan
    /\ formData' = NewLoanForm(today, accounts)
    /\ UNCHANGED <<pageVars, envVars, editsLeft>>
    /\ alertShown' = ""

\* the pencil button of a card, shown for loans that are not archived
openModalForEdit(i) ==
    /\ ~appCrashed /\ ~isModalOpen
    /\ editsLeft > 0
    /\ ~loans[i].is_archived
    /\ isModalOpen' = TRUE
    /\ editingLoan' = loans[i]
    /\ formData' = loans[i]
    /\ UNCHANGED <<pageVars, envVars, editsLeft>>
    /\ alertShown' = ""

CloseModal ==
    /\ ~appCrashed /\ isModalOpen
    /\ isModalOpen' = FALSE
    /\ editingLoan' = NoLoan
    /\ formData' = NoLoan
    /\ UNCHANGED <<pageVars, envVars, editsLeft>>
    /\ alertShown' = ""

handleFormChange(name, value) ==
    /\ ~appCrashed /\ isModalOpen
    /\ editsLeft > 0
    \* the installment count input is rendered for the installment modality only
    /\ name = "installments" => formData.modality = Parcelado
    /\ formData' = FormChangeUpdater(formData, name, value)
    /\ editsLeft' = editsLeft - 1
    /\ UNCHANGED <<pageVars, envVars, isModalOpen, editingLoan>>
    /\ alertShown' = ""

\* Loans.tsx:604-655.  confirmed is the answer to window.confirm, asked when
\* an installment is marked paid.  With a negative installment count the loop
\* body never runs and newInstallments[-1].due_date throws.
handleGenerateInstallments(confirmed) ==
    /\ ~appCrashed /\ isModalOpen
    /\ formData.modality = Parcelado          \* the button is rendered
    /\ editsLeft > 0
    /\ editsLeft' = editsLeft - 1
    /\ LET hasPaidInstallments ==
               \E k \in 1..Len(formData.installments_details) :
                   formData.installments_details[k].status = "paid"
       IN  IF hasPaidInstallments /\ ~confirmed
           THEN UNCHANGED <<formData, appCrashed>>
           ELSE IF CanGenerate(formData) /\ formData.installments < 0
           THEN /\ appCrashed' = TRUE
                /\ UNCHANGED formData
           ELSE /\ formData' = GenerateUpdater(formData, hostTZ)
                /\ UNCHANGED appCrashed
    /\ UNCHANGED <<pageVars, today, hostTZ, keyboardUse, nextId, isModalOpen, editingLoan>>
    /\ alertShown' = ""

handleInstallmentDetailChange(index, field, value) ==
    /\ ~appCrashed /\ isModalOpen
    /\ formData.modality = Parcelado          \* the rows are rendered
    /\ index \in 1..Len(formData.installments_details)
    /\ editsLeft > 0
    /\ editsLeft' = editsLeft - 1
    /\ formData' = InstallmentDetailUpdater(formData, index, field, value, today, hostTZ)
    /\ UNCHANGED <<pageVars, envVars, isModalOpen, editingLoan>>
    /\ alertShown' = ""

(***************************************************************************)
(* handleSubmit, Loans.tsx:708-721, and handleSaveLoan, Loans.tsx:268-301. *)
(***************************************************************************)
AlertRequiredFields ==
    "Preencha todos os campos obrigatorios, incluindo a conta de origem."
AlertNoSchedule ==
    "Para a modalidade parcelada, por favor, gere e confirme as parcelas."
AlertNoAccount ==
    "Por favor, selecione uma conta para creditar o recebimento."

\* SubmitRejected without the test of account_id
SubmitRejectedUnlessNoAccount(f) ==
    \/ f.clientId = ""
    \/ ~Truthy(f.amount_borrowed)
    \/ ~HasDate(f.due_date)
    \/ (f.modality = Parcelado /\ f.installments_details = <<>>)

\* the validation of LoanModal.handleSubmit, Loans.tsx:710 and 715
SubmitRejected(f) ==
    \/ f.clientId = ""
    \/ ~Truthy(f.amount_borrowed)
    \/ ~HasDate(f.due_date)
    \/ f.account_id = ""
    \/ (f.modality = Parcelado /\ f.installments_details = <<>>)

\* the message of the alert() that rejects the form, Loans.tsx:711 and 716
SubmitAlert(f) ==
    IF f.clientId = "" \/ ~Truthy(f.amount_borrowed) \/ ~HasDate(f.due_date)
          \/ f.account_id = ""
    THEN AlertRequiredFields
    ELSE AlertNoSchedule

\* EditedLoan with the two due_date strings compared whole instead of by their
\* date part
EditedLoanComparingStrings(editing, loan, tdy) ==
    LET loanWithClientName == [loan EXCEPT !.clientName = ClientName(loan.clientId)]
    IN  IF editing.due_date # loan.due_date
        THEN [loanWithClientName EXCEPT !.due_date_history =
                 Append(editing.due_date_history,
                        [old_due_date |-> editing.due_date,
                         new_due_date |-> loan.due_date,
                         change_date |-> tdy])]
        ELSE loanWithClientName

\* loanWithClientName of an edit, Loans.tsx:270-280
EditedLoan(editing, loan, tdy) ==
    LET loanWithClientName == [loan EXCEPT !.clientName = ClientName(loan.clientId)]
    IN  IF editing.due_date.day # loan.due_date.day
        THEN [loanWithClientName EXCEPT !.due_date_history =
                 Append(editing.due_date_history,
                        [old_due_date |-> editing.due_date,
                         new_due_date |-> loan.due_date,
                         change_date |-> tdy])]
        ELSE loanWithClientName

\* LoanDebit for the amount to receive instead of the amount borrowed
LoanDebitOfAmountDue(newLoan) ==
    [accountId |-> newLoan.account_id, client |-> newLoan.clientName,
     installment |-> 0, interest |-> FALSE,
     amount |-> newLoan.amount_to_receive, type |-> "debit", date |-> newLoan.date]

\* the debit of a new loan, Loans.tsx:288-295
LoanDebit(newLoan) ==
    [accountId |-> newLoan.account_id, client |-> newLoan.clientName,
     installment |-> 0, interest |-> FALSE,
     amount |-> newLoan.amount_borrowed, type |-> "debit", date |-> newLoan.date]

SubmitCloses ==
    /\ isModalOpen' = FALSE
    /\ editingLoan' = NoLoan
    /\ formData' = NoLoan
    /\ UNCHANGED editsLeft

handleSubmit ==
    /\ ~appCrashed /\ isModalOpen
    /\ IF SubmitRejected(formData)
       THEN /\ alertShown' = SubmitAlert(formData)
            /\ UNCHANGED <<pageVars, formVars, nextId, editsLeft>>
       ELSE IF editingLoan # NoLoan
       THEN /\ Len(EditedLoan(editingLoan, formData, today).due_date_history) <= MaxHist
            /\ loans' = [i \in 1..Len(loans) |->
                            IF loans[i].id = formData.id
                            THEN EditedLoan(editingLoan, formData, today)
                            ELSE loans[i]]
            /\ SubmitCloses
            /\ alertShown' = ""
            /\ UNCHANGED <<transactions, deletionHistory, accounts, nextId>>
       ELSE /\ Len(loans) < MaxLoans
            /\ Len(transactions) < MaxTxns
            /\ LET newLoan == [formData EXCEPT !.clientName = ClientName(formData.clientId),
                                               !.id = nextId]
               IN  /\ loans' = <<newLoan>> \o loans
                   /\ transactions' = <<LoanDebit(newLoan)>> \o transactions
            /\ nextId' = nextId + 1
            /\ SubmitCloses
            /\ alertShown' = ""
            /\ UNCHANGED <<deletionHistory, accounts>>
    /\ UNCHANGED <<today, hostTZ, keyboardUse, appCrashed>>

(***************************************************************************)
(* QuickReceiveModal.handleSave, Loans.tsx:925-931, and                    *)
(* handleReceivePayment, Loans.tsx:340-389.                                *)
(***************************************************************************)
PendingNumbers(loan) ==
    {loan.installments_details[k].installment_number :
        k \in {j \in 1..Len(loan.installments_details) :
                  loan.installments_details[j].status = "pending"}}

\* the installment numbers the modal can pass: a pending installment of an
\* installment loan, otherwise none (0 stands for undefined)
SelectableInstallments(loan) ==
    IF loan.modality = Parcelado /\ PendingNumbers(loan) # {}
    THEN PendingNumbers(loan) ELSE {0}

\* the payment types the modal can pass: the radio buttons are rendered for
\* monthly-interest loans only and the state starts as 'interest_only'
SelectablePaymentTypes(loan) ==
    IF loan.modality = JurosMensal THEN {"interest_only", "full"} ELSE {"interest_only"}

\* the amount the modal proposes, Loans.tsx:888-912 and 916-923
ProposedAmount(loan, installmentNumber, paymentType, tdy) ==
    IF loan.modality = JurosMensal
    THEN IF paymentType = "interest_only" THEN loan.amount_to_receive
         ELSE loan.amount_borrowed + loan.amount_to_receive
    ELSE IF loan.modality = Parcelado
    THEN IF installmentNumber = 0 THEN 0
         ELSE LET inst == CHOOSE x \in {loan.installments_details[k] :
                                           k \in 1..Len(loan.installments_details)} :
                              x.installment_number = installmentNumber /\ x.status = "pending"
              IN  InstallmentTotalDue(inst, loan, tdy)
    ELSE loan.amount_to_receive
         + calculateDaysOverdue(loan.due_date, tdy) * loan.daily_late_fee_amount

\* InterestOnlyPaid that replaces the history by the new entry instead of
\* appending to it
InterestOnlyPaidAlone(l, paymentDate, amountPaid, tdy, tz) ==
    LET currentDueDate == ParseLocalMidnight(l.due_date)
        rolled == setMonth(currentDueDate, getMonth(currentDueDate) + 1)
        newDue == LocalMidnightToISOString(rolled, tz)
    IN  [l EXCEPT !.interest_payments_history =
                      <<[date |-> paymentDate, amount_paid |-> amountPaid]>>,
                  !.due_date = newDue,
                  !.status = getDynamicStatus([l EXCEPT !.due_date = newDue], tdy)]

\* the interest-only branch, Loans.tsx:345-355
InterestOnlyPaid(l, paymentDate, amountPaid, tdy, tz) ==
    LET currentDueDate == ParseLocalMidnight(l.due_date)
        rolled == setMonth(currentDueDate, getMonth(currentDueDate) + 1)
        newDue == LocalMidnightToISOString(rolled, tz)
    IN  [l EXCEPT !.interest_payments_history =
                      Append(@, [date |-> paymentDate, amount_paid |-> amountPaid]),
                  !.due_date = newDue,
                  !.status = getDynamicStatus([l EXCEPT !.due_date = newDue], tdy)]

\* InstallmentPaid with `<=` in place of `===` in the comparison of installment
\* numbers: every installment up to the one paid is marked paid
InstallmentPaidUpTo(l, paymentDate, amountPaid, installmentNumber) ==
    LET details ==
            [k \in 1..Len(l.installments_details) |->
                IF l.installments_details[k].installment_number <= installmentNumber
                THEN [l.installments_details[k] EXCEPT !.status = "paid",
                                                       !.payment_date = paymentDate,
                                                       !.amount_paid = amountPaid]
                ELSE l.installments_details[k]]
    IN  IF AllPaid(details)
        THEN [l EXCEPT !.installments_details = details,
                       !.status = "paid",
                       !.payment_date = paymentDate]
        ELSE [l EXCEPT !.installments_details = details]

\* the installment branch, Loans.tsx:357-365
InstallmentPaid(l, paymentDate, amountPaid, installmentNumber) ==
    LET details ==
            [k \in 1..Len(l.installments_details) |->
                IF l.installments_details[k].installment_number = installmentNumber
                THEN [l.installments_details[k] EXCEPT !.status = "paid",
                                                       !.payment_date = paymentDate,
                                                       !.amount_paid = amountPaid]
                ELSE l.installments_details[k]]
    IN  IF AllPaid(details)
        THEN [l EXCEPT !.installments_details = details,
                       !.status = "paid",
                       !.payment_date = paymentDate]
        ELSE [l EXCEPT !.installments_details = details]

\* the full-payment branch, Loans.tsx:366-370
FullyPaid(l, paymentDate) ==
    [l EXCEPT !.status = "paid", !.payment_date = paymentDate]

\* the updated loan of Loans.tsx:341-374
ReceivedLoan(l, paymentDate, amountPaid, installmentNumber, paymentType, tdy, tz) ==
    IF l.modality = JurosMensal /\ paymentType = "interest_only"
    THEN InterestOnlyPaid(l, paymentDate, amountPaid, tdy, tz)
    ELSE IF l.modality = Parcelado /\ installmentNumber # 0
    THEN InstallmentPaid(l, paymentDate, amountPaid, installmentNumber)
    ELSE FullyPaid(l, paymentDate)

\* the credit of a payment, Loans.tsx:377-384
PaymentCredit(loan, paymentDate, amountPaid, accountId, installmentNumber, paymentType) ==
    [accountId |-> accountId, client |-> loan.clientName,
     installment |-> installmentNumber,
     interest |-> (paymentType = "interest_only"),
     amount |-> amountPaid, type |-> "credit", date |-> paymentDate]

\* the receive button of a card is rendered while the card's status is not
\* paid and the loan is not archived, Loans.tsx:193
handleReceivePayment(i, paymentDay, accountId, installmentNumber, paymentType) ==
    /\ ~appCrashed /\ CardsInReach
    /\ CardEffectiveStatus(loans[i], today) # "paid"
    /\ ~loans[i].is_archived
    /\ installmentNumber \in SelectableInstallments(loans[i])
    /\ paymentType \in SelectablePaymentTypes(loans[i])
    /\ IF accountId = ""
       THEN /\ alertShown' = AlertNoAccount
            /\ UNCHANGED pageVars
       ELSE /\ Len(transactions) < MaxTxns
            /\ Len(loans[i].interest_payments_history) < MaxInterestPayments
            /\ LET amountPaid == ProposedAmount(loans[i], installmentNumber, paymentType, today)
               IN  /\ loans' = [loans EXCEPT ![i] =
                                   ReceivedLoan(@, BareDate(paymentDay), amountPaid,
                                                installmentNumber, paymentType, today, hostTZ)]
                   /\ transactions' =
                          <<PaymentCredit(loans[i], BareDate(paymentDay), amountPaid,
                                          accountId, installmentNumber, paymentType)>>
                          \o transactions
            /\ alertShown' = ""
            /\ UNCHANGED <<deletionHistory, accounts>>
    /\ UNCHANGED <<formVars, envVars, editsLeft>>

(***************************************************************************)
(* handleAddPromise, Loans.tsx:391-400.  The promise button is rendered    *)
(* while the card's status is not paid and the loan is not archived.       *)
(***************************************************************************)
\* handleAddPromise that also logs the change in due_date_history
handleAddPromiseLoggingChange(i, promiseDay) ==
    /\ ~appCrashed /\ CardsInReach
    /\ CardEffectiveStatus(loans[i], today) # "paid"
    /\ ~loans[i].is_archived
    /\ Len(loans[i].promise_history) < MaxHist
    /\ loans' = [loans EXCEPT ![i] =
                    [@ EXCEPT !.promise_history =
                                  Append(@, [date |-> today, note |-> "",
                                             promised_due_date |-> BareDate(promiseDay)]),
                              !.due_date_history =
                                  Append(@, [old_due_date |-> loans[i].due_date,
                                             new_due_date |-> BareDate(promiseDay),
                                             change_date |-> today]),
                              !.due_date = BareDate(promiseDay)]]
    /\ UNCHANGED <<transactions, deletionHistory, accounts, formVars, envVars, editsLeft>>
    /\ alertShown' = ""

handleAddPromise(i, promiseDay) ==
    /\ ~appCrashed /\ CardsInReach
    /\ CardEffectiveStatus(loans[i], today) # "paid"
    /\ ~loans[i].is_archived
    /\ Len(loans[i].promise_history) < MaxHist
    /\ loans' = [loans EXCEPT ![i] =
                    [@ EXCEPT !.promise_history =
                                  Append(@, [date |-> today, note |-> "",
                                             promised_due_date |-> BareDate(promiseDay)]),
                              !.due_date = BareDate(promiseDay)]]
    /\ UNCHANGED <<transactions, deletionHistory, accounts, formVars, envVars, editsLeft>>
    /\ alertShown' = ""

(***************************************************************************)
(* handleArchiveLoan, handleRestoreLoan and handlePermanentDeleteLoan,     *)
(* Loans.tsx:303-338, once the user confirmed.                             *)
(***************************************************************************)
DeletionRecord(action, loan) ==
    [type |-> "loan", action |-> action, name |-> loan.clientName]

handleArchiveLoan(i) ==
    /\ ~appCrashed /\ CardsInReach
    /\ ~loans[i].is_archived
    /\ Len(deletionHistory) < MaxDeletions
    /\ loans' = [loans EXCEPT ![i].is_archived = TRUE]
    /\ deletionHistory' = Append(deletionHistory, DeletionRecord("archived", loans[i]))
    /\ UNCHANGED <<transactions, accounts, formVars, envVars, editsLeft>>
    /\ alertShown' = ""

handleRestoreLoan(i) ==
    /\ ~appCrashed /\ CardsInReach
    /\ loans[i].is_archived
    /\ loans' = [loans EXCEPT ![i].is_archived = FALSE]
    /\ UNCHANGED <<transactions, deletionHistory, accounts, formVars, envVars, editsLeft>>
    /\ alertShown' = ""

handlePermanentDeleteLoanOfClient(i) ==
    /\ ~appCrashed /\ CardsInReach
    /\ loans[i].is_archived
    /\ Len(deletionHistory) < MaxDeletions
    /\ loans' = SelectSeq(loans, LAMBDA l : l.clientId # loans[i].clientId)
    /\ deletionHistory' = Append(deletionHistory, DeletionRecord("deleted", loans[i]))
    /\ UNCHANGED <<transactions, accounts, formVars, envVars, editsLeft>>
    /\ alertShown' = ""

handlePermanentDeleteLoan(i) ==
    /\ ~appCrashed /\ CardsInReach
    /\ loans[i].is_archived
    /\ Len(deletionHistory) < MaxDeletions
    /\ loans' = SelectSeq(loans, LAMBDA l : l.id # loans[i].id)
    /\ deletionHistory' = Append(deletionHistory, DeletionRecord("deleted", loans[i]))
    /\ UNCHANGED <<transactions, accounts, formVars, envVars, editsLeft>>
    /\ alertShown' = ""

(***************************************************************************)
(* The accounts of ClientsAndAccountsPage, part_003:94-128, once the user  *)
(* confirmed.  The row of an archived account offers restore and permanent *)
(* delete, the row of an active one archive-or-delete, part_003:170-180.   *)
(***************************************************************************)
AccountName(id) ==
    IF id = "acc-1" THEN "C6 Bank" ELSE "Cecilia"

AccountRecord(action, account) ==
    [type |-> "account", action |-> action, name |-> AccountName(account.id)]

isAccountInUse(account) ==
    \/ \E i \in 1..Len(loans) : loans[i].account_id = account.id
    \/ \E k \in 1..Len(transactions) : transactions[k].accountId = account.id

handleArchiveOrDeleteAccount(a) ==
    /\ ~appCrashed /\ ~isModalOpen
    /\ ~accounts[a].is_archived
    /\ Len(deletionHistory) < MaxDeletions
    /\ IF isAccountInUse(accounts[a])
       THEN /\ accounts' = [accounts EXCEPT ![a].is_archived = TRUE]
            /\ deletionHistory' = Append(deletionHistory, AccountRecord("archived", accounts[a]))
       ELSE /\ accounts' = SelectSeq(accounts, LAMBDA x : x.id # accounts[a].id)
            /\ deletionHistory' = Append(deletionHistory, AccountRecord("deleted", accounts[a]))
    /\ UNCHANGED <<loans, transactions, formVars, envVars, editsLeft>>
    /\ alertShown' = ""

handleRestoreAccount(a) ==
    /\ ~appCrashed /\ ~isModalOpen
    /\ accounts[a].is_archived
    /\ accounts' = [accounts EXCEPT ![a].is_archived = FALSE]
    /\ UNCHANGED <<loans, transactions, deletionHistory, formVars, envVars, editsLeft>>
    /\ alertShown' = ""

handlePermanentDeleteAccount(a) ==
    /\ ~appCrashed /\ ~isModalOpen
    /\ accounts[a].is_archived
    /\ Len(deletionHistory) < MaxDeletions
    /\ accounts' = SelectSeq(accounts, LAMBDA x : x.id # accounts[a].id)
    /\ deletionHistory' = Append(deletionHistory, AccountRecord("deleted", accounts[a]))
    /\ UNCHANGED <<loans, transactions, formVars, envVars, editsLeft>>
    /\ alertShown' = ""

(***************************************************************************)
(* The specification.                                                      *)
(***************************************************************************)
Next ==
    \/ AdvanceClock
    \/ openModalForNew
    \/ \E i \in 1..Len(loans) : openModalForEdit(i)
    \/ CloseModal
    \/ \E u \in FormUpdates : handleFormChange(u[1], u[2])
    \/ \E c \in BOOLEAN : handleGenerateInstallments(c)
    \/ \E index \in 1..3, u \in DetailUpdates : handleInstallmentDetailChange(index, u[1], u[2])
    \/ handleSubmit
    \/ \E i \in 1..Len(loans), d \in PaymentDays, a \in {"", "acc-1"}, k \in 0..3,
          t \in {"interest_only", "full"} : handleReceivePayment(i, d, a, k, t)
    \/ \E i \in 1..Len(loans), d \in FormDays : handleAddPromise(i, d)
    \/ \E i \in 1..Len(loans) : handleArchiveLoan(i)
    \/ \E i \in 1..Len(loans) : handleRestoreLoan(i)
    \/ \E i \in 1..Len(loans) : handlePermanentDeleteLoan(i)

Spec == Init /\ [][Next]_vars

\* the loans list alone: nobody opens the loan form
NextPage ==
    \/ AdvanceClock
    \/ \E i \in 1..Len(loans), d \in PaymentDays, a \in {"", "acc-1"}, k \in 0..3,
          t \in {"interest_only", "full"} : handleReceivePayment(i, d, a, k, t)
    \/ \E i \in 1..Len(loans), d \in FormDays : handleAddPromise(i, d)
    \/ \E i \in 1..Len(loans) : handleArchiveLoan(i)
    \/ \E i \in 1..Len(loans) : handleRestoreLoan(i)
    \/ \E i \in 1..Len(loans) : handlePermanentDeleteLoan(i)

SpecPage == Init /\ [][NextPage]_vars

\* the loan form alone: loans change only when the form is saved
InitForm == InitWith(MaxFormEdits)

NextForm ==
    \/ AdvanceClock
    \/ openModalForNew
    \/ \E i \in 1..Len(loans) : openModalForEdit(i)
    \/ CloseModal
    \/ \E u \in FormUpdates : handleFormChange(u[1], u[2])
    \/ \E c \in BOOLEAN : handleGenerateInstallments(c)
    \/ \E index \in 1..3, u \in DetailUpdates : handleInstallmentDetailChange(index, u[1], u[2])
    \/ handleSubmit

SpecForm == InitForm /\ [][NextForm]_vars

\* edits of saved loans: the page holds a loan saved from the form or a
\* monthly-interest loan, due 2024-12-31, whose interest was received once, so
\* that its due date is stored as the toISOString() of the rolled date
RolledLoan(tz) ==
    InterestOnlyPaid([SeedLoan(JurosMensal, tz) EXCEPT !.due_date = BareDate(Day20241231)],
                     BareDate(Day20250102), 10, Day20250102, tz)

InitEdit ==
    /\ (hostTZ = "west" \/ hostTZ = "east")
    /\ keyboardUse = FALSE
    /\ \/ \E m \in MODALITIES : loans = << SeedLoan(m, hostTZ) >>
       \/ loans = << RolledLoan(hostTZ) >>
    /\ transactions = MockTransactions
    /\ deletionHistory = <<>>
    /\ accounts = MockAccounts
    /\ today = Day20250115
    /\ isModalOpen = FALSE
    /\ editingLoan = NoLoan
    /\ formData = NoLoan
    /\ editsLeft = MaxLoanEdits
    /\ nextId = 2
    /\ appCrashed = FALSE
    /\ alertShown = ""

SpecEdit == InitEdit /\ [][NextForm]_vars

\* the ledger: the page holds one loan and the form of a second one was opened
\* today; it is still blank or filled in and ready to be saved.  The cards and
\* the form are used after that
ReadyForm(modality, tz) ==
    [SeedForm(modality, tz) EXCEPT !.date = BareDate(Day20250115)]

LedgerUpdates ==
    ({"account_id"} \X {""})
    \cup ({"modality"} \X {Parcelado})
    \cup ({"due_date"} \X {BareDate(Day20250110)})

InitLedger ==
    /\ (hostTZ = "west" \/ hostTZ = "east")
    /\ keyboardUse = FALSE
    /\ \E m \in MODALITIES : loans = << SeedLoan(m, hostTZ) >>
    /\ transactions = MockTransactions
    /\ deletionHistory = <<>>
    /\ accounts = MockAccounts
    /\ today = Day20250115
    /\ isModalOpen = TRUE
    /\ editingLoan = NoLoan
    /\ \/ formData = ReadyForm(PagamentoUnico, hostTZ)
       \/ formData = NewLoanForm(today, accounts)
    /\ editsLeft = MaxLedgerEdits
    /\ nextId = 2
    /\ appCrashed = FALSE
    /\ alertShown = ""

\* the card the user works with: the first of the list, the newest loan
FirstCard == {i \in 1..Len(loans) : i = 1}

NextLedger ==
    \/ AdvanceClock
    \/ \E i \in FirstCard : openModalForEdit(i)
    \/ CloseModal
    \/ \E u \in LedgerUpdates : handleFormChange(u[1], u[2])
    \/ handleSubmit
    \/ \E i \in FirstCard, a \in {"", "acc-1"}, k \in 0..3,
          t \in {"interest_only", "full"} : handleReceivePayment(i, Day20250215, a, k, t)
    \/ \E i \in FirstCard : handleAddPromise(i, Day20250110)
    \/ \E i \in FirstCard : handleArchiveLoan(i)
    \/ \E i \in FirstCard : handleRestoreLoan(i)
    \/ \E i \in FirstCard : handlePermanentDeleteLoan(i)

SpecLedger == InitLedger /\ [][NextLedger]_vars

\* the keyboard: one loan on the page, whose card is worked with the keyboard
\* as well, so that its form can be open while a payment or a promise is
\* recorded on the card behind it
InitKeyboard ==
    /\ (hostTZ = "west" \/ hostTZ = "east")
    /\ keyboardUse = TRUE
    /\ \E m \in MODALITIES : loans = << SeedLoan(m, hostTZ) >>
    /\ transactions = MockTransactions
    /\ deletionHistory = <<>>
    /\ accounts = MockAccounts
    /\ today = Day20250115
    /\ isModalOpen = FALSE
    /\ editingLoan = NoLoan
    /\ formData = NoLoan
    /\ editsLeft = MaxLoanEdits
    /\ nextId = 2
    /\ appCrashed = FALSE
    /\ alertShown = ""

NextKeyboard ==
    \/ \E i \in 1..Len(loans) : openModalForEdit(i)
    \/ CloseModal
    \/ \E u \in LedgerUpdates : handleFormChange(u[1], u[2])
    \/ handleSubmit
    \/ \E i \in 1..Len(loans), a \in {"", "acc-1"}, k \in 0..3,
          t \in {"interest_only", "full"} : handleReceivePayment(i, Day20250215, a, k, t)
    \/ \E i \in 1..Len(loans) : handleAddPromise(i, Day20250110)

SpecKeyboard == InitKeyboard /\ [][NextKeyboard]_vars

\* the accounts: the first two of MOCK_ACCOUNTS, constants.ts:52-53; the loan
\* and the transaction of the page are on the first
TwoAccounts ==
    MockAccounts \o << [id |-> "acc-2", is_archived |-> FALSE] >>

InitAccounts ==
    /\ (hostTZ = "west" \/ hostTZ = "east")
    /\ keyboardUse = FALSE
    /\ \E m \in MODALITIES : loans = << SeedLoan(m, hostTZ) >>
    /\ transactions = MockTransactions
    /\ deletionHistory = <<>>
    /\ accounts = TwoAccounts
    /\ today = Day20250115
    /\ isModalOpen = FALSE
    /\ editingLoan = NoLoan
    /\ formData = NoLoan
    /\ editsLeft = MaxPageEdits
    /\ nextId = 2
    /\ appCrashed = FALSE
    /\ alertShown = ""

NextAccounts ==
    \/ AdvanceClock
    \/ \E i \in 1..Len(loans), a \in {"", "acc-1"}, k \in 0..3,
          t \in {"interest_only", "full"} : handleReceivePayment(i, Day20250215, a, k, t)
    \/ \E i \in 1..Len(loans) : handleArchiveLoan(i)
    \/ \E i \in 1..Len(loans) : handlePermanentDeleteLoan(i)
    \/ \E a \in 1..Len(accounts) : handleArchiveOrDeleteAccount(a)
    \/ \E a \in 1..Len(accounts) : handleRestoreAccount(a)
    \/ \E a \in 1..Len(accounts) : handlePermanentDeleteAccount(a)

SpecAccounts == InitAccounts /\ [][NextAccounts]_vars

\* the schedule generator alone: a new-loan form of the installment modality
\* holding a total of `cents`, `count` installments and a first due date
GenForm(cents, count, firstDue) ==
    LET f0 == NewLoanForm(Day20250115, MockAccounts)
        f1 == FormChangeUpdater(f0, "clientId", "client-1")
        f2 == FormChangeUpdater(f1, "modality", Parcelado)
        f3 == FormChangeUpdater(f2, "interest_rate", 0)
        f4 == FormChangeUpdater(f3, "amount_borrowed", cents)
        f5 == FormChangeUpdater(f4, "due_date", BareDate(firstDue))
    IN  FormChangeUpdater(f5, "installments", count)

InitGen ==
    /\ (hostTZ = "west" \/ hostTZ = "east")
    /\ keyboardUse = FALSE
    /\ loans = << SeedLoan(PagamentoUnico, hostTZ) >>
    /\ transactions = MockTransactions
    /\ deletionHistory = <<>>
    /\ accounts = MockAccounts
    /\ today = Day20250115
    /\ isModalOpen = TRUE
    /\ editingLoan = NoLoan
    /\ \E cents \in 1..MaxCents, count \in 1..MaxN, firstDue \in FormDays :
           formData = GenForm(cents, count, firstDue)
    /\ editsLeft = MaxGenerations
    /\ nextId = 2
    /\ appCrashed = FALSE
    /\ alertShown = ""

NextGen == \E c \in BOOLEAN : handleGenerateInstallments(c)

SpecGen == InitGen /\ [][NextGen]_vars

(***************************************************************************)
(* Properties.                                                             *)
(***************************************************************************)

\* C1: after any sequence of loan operations, every installment-modality
\* loan that has a schedule has a due_date whose calendar date is the latest
\* due date among its installments.
C1_DueDateIsLatestInstallmentDue ==
    \A i \in 1..Len(loans) :
        (loans[i].modality = Parcelado /\ loans[i].installments_details # <<>>)
            => ParseLocalMidnight(loans[i].due_date)
                   = LatestDueDay(loans[i].installments_details)

\* C2: no installment-modality loan is stored with status 'paid' while one of
\* its installments is still 'pending'.
C2_NoPaidLoanWithPendingInstallment ==
    \A i \in 1..Len(loans) :
        (loans[i].modality = Parcelado /\ loans[i].status = "paid")
            => AllPaid(loans[i].installments_details)

\* C3: schedule generation is idempotent: generating again, with no form
\* field changed since the previous generation, yields the same installment
\* due dates and amounts and the same loan due_date.
C3_GenerationIsIdempotent ==
    [][ ( /\ formData.installments_details # <<>>
          /\ \E c \in BOOLEAN : handleGenerateInstallments(c) )
        => /\ Len(formData'.installments_details) = Len(formData.installments_details)
           /\ \A k \in 1..Len(formData.installments_details) :
                 /\ formData'.installments_details[k].amount
                        = formData.installments_details[k].amount
                 /\ ParseLocalMidnight(formData'.installments_details[k].due_date)
                        = ParseLocalMidnight(formData.installments_details[k].due_date)
           /\ ParseLocalMidnight(formData'.due_date) = ParseLocalMidnight(formData.due_date)
      ]_vars

\* C4: an interest-only payment on a monthly-interest loan moves due_date to
\* the same day of the following month, clamped to the last day of that month
\* when the day does not exist there, and never into the month after.
C4_InterestOnlyRolloverIsClamped ==
    [][ \A i \in 1..Len(loans), d \in PaymentDays :
          ( /\ loans[i].modality = JurosMensal
            /\ handleReceivePayment(i, d, "acc-1", 0, "interest_only") )
          => ParseLocalMidnight(loans'[i].due_date)
                 = InstallmentDueDay(ParseLocalMidnight(loans[i].due_date), 1)
      ]_vars

\* C5: when an installment payment makes every installment of a loan paid,
\* the loan's payment_date is the latest payment_date among its installments,
\* whatever the order and the dates of the payments.
C5_PaymentDateIsLatestInstallmentPayment ==
    [][ \A i \in 1..Len(loans), d \in PaymentDays, k \in 1..3 :
          ( /\ loans[i].modality = Parcelado
            /\ handleReceivePayment(i, d, "acc-1", k, "interest_only")
            /\ AllPaid(loans'[i].installments_details) )
          => /\ HasDate(loans'[i].payment_date)
             /\ Hours(loans'[i].payment_date)
                    = LastPaymentInstant(loans'[i].installments_details)
      ]_vars

\* C6: recording a payment for installment k of an installment loan sets
\* installment k alone to paid, with the payment date and the amount paid,
\* leaves every other installment as it was, and stores status 'paid' exactly
\* when every installment is paid afterwards; otherwise the stored status is
\* left as it was.
C6_InstallmentPaymentFrame ==
    [][ \A i \in 1..Len(loans), d \in PaymentDays, k \in 1..3 :
          ( /\ loans[i].modality = Parcelado
            /\ handleReceivePayment(i, d, "acc-1", k, "interest_only") )
          => LET old == loans[i].installments_details
                 new == loans'[i].installments_details
             IN  /\ Len(new) = Len(old)
                 /\ \A j \in 1..Len(old) :
                       IF old[j].installment_number = k
                       THEN /\ new[j].status = "paid"
                            /\ new[j].payment_date = BareDate(d)
                            /\ new[j].amount_paid = transactions'[1].amount
                            /\ new[j].installment_number = k
                            /\ new[j].amount = old[j].amount
                            /\ new[j].due_date = old[j].due_date
                       ELSE new[j] = old[j]
                 /\ loans'[i].status = IF AllPaid(new) THEN "paid" ELSE loans[i].status
      ]_vars

\* a payment was recorded for the second installment of a loan while its first
\* installment stayed pending and the loan stayed open
C6_SecondInstallmentPaidAlone ==
    \E i \in 1..Len(loans) :
        /\ loans[i].modality = Parcelado
        /\ Len(loans[i].installments_details) = 2
        /\ loans[i].installments_details[1].status = "pending"
        /\ loans[i].installments_details[2].status = "paid"
        /\ loans[i].installments_details[2].amount_paid # Undefined
        /\ HasDate(loans[i].installments_details[2].payment_date)
        /\ loans[i].status # "paid"

\* C7: an installment loan whose installments are all paid has the effective
\* status 'paid' both in the list filter and on its card, whatever its stored
\* status.
C7_AllInstallmentsPaidShowsPaid ==
    \A i \in 1..Len(loans) :
        ( /\ loans[i].modality = Parcelado
          /\ loans[i].installments_details # <<>>
          /\ AllPaid(loans[i].installments_details) )
        => /\ ListEffectiveStatus(loans[i], today) = "paid"
           /\ CardEffectiveStatus(loans[i], today) = "paid"

\* C8: an installment loan that is not stored as paid and has a pending
\* installment is effectively 'overdue' exactly when a pending installment is
\* due before today, and 'pending' otherwise, whatever its loan-level due_date.
C8_InstallmentLoanStatusFollowsInstallments ==
    \A i \in 1..Len(loans) :
        ( /\ loans[i].modality = Parcelado
          /\ loans[i].status # "paid"
          /\ ~AllPaid(loans[i].installments_details) )
        => LET expected == IF AnyPendingOverdue(loans[i].installments_details, today)
                           THEN "overdue" ELSE "pending"
           IN  /\ ListEffectiveStatus(loans[i], today) = expected
               /\ CardEffectiveStatus(loans[i], today) = expected

\* C9: in every state of the loan form, and in every saved installment loan,
\* the installment amounts of a schedule add up to amount_to_receive.
C9_InstallmentsSumToAmountToReceive ==
    /\ ( /\ isModalOpen
         /\ formData.modality = Parcelado
         /\ formData.installments_details # <<>> )
       => SumAmounts(formData.installments_details) = formData.amount_to_receive
    /\ \A i \in 1..Len(loans) :
          (loans[i].modality = Parcelado /\ loans[i].installments_details # <<>>)
              => SumAmounts(loans[i].installments_details) = loans[i].amount_to_receive

\* C10: right after a schedule of N installments is generated for a total of
\* A whole cents, each of the first N-1 installments is A/N truncated to
\* cents, the last is A less the sum of the others, and all add up to A.
C10_GeneratedAmountsAreTruncatedShares ==
    formData.installments_details # <<>>
        => LET A == formData.amount_to_receive
               N == formData.installments
               d == formData.installments_details
           IN  /\ Len(d) = N
               /\ \A k \in 1..(N - 1) : d[k].amount = A \div N
               /\ d[N].amount = A - (N - 1) * (A \div N)
               /\ SumAmounts(d) = A

\* C11: in a generated schedule installment i (0-based) is due on the first
\* due date plus i calendar months, each counted from the first due date and
\* clamped to the last day of the target month when the day does not exist
\* there, also across the end of a year.
C11_DueDatesAreMonthlyFromFirst ==
    [][ ( /\ CanGenerate(formData)
          /\ \E c \in BOOLEAN : handleGenerateInstallments(c)
          /\ formData'.installments_details # formData.installments_details )
        => LET first == ParseLocalMidnight(formData.due_date)
               y == getFullYear(first)
               m == getMonth(first)
               d == getDate(first)
           IN  \A k \in 1..Len(formData'.installments_details) :
                  LET ty == y + ((m + k - 1) \div 12)
                      tm == (m + k - 1) % 12
                      td == IF d > DaysInMonth(ty, tm) THEN DaysInMonth(ty, tm) ELSE d
                  IN  ParseLocalMidnight(formData'.installments_details[k].due_date)
                          = MakeDay(ty, tm, td)
      ]_vars


\* C12: a loan whose stored status is 'paid' or whose is_archived flag is set
\* has outstanding balance 0 on every reference date, whatever its modality.
C12_PaidOrArchivedOwesNothing ==
    \A i \in 1..Len(loans) : \A d \in ClockDays \cup {today} :
        (loans[i].status = "paid" \/ loans[i].is_archived)
            => calculateCurrentOutstandingBalance(loans[i], d) = 0

\* an archived loan that was never paid and is past its due date
C12_ArchivedUnpaidOverdueLoan ==
    \E i \in 1..Len(loans) :
        /\ loans[i].is_archived
        /\ loans[i].status # "paid"
        /\ getDynamicStatus(loans[i], today) = "overdue"
        /\ OpenBalance(loans[i], today) > 0

\* C13: the outstanding balance of an unpaid loan that is not archived is, for
\* a single payment, amount_to_receive plus days overdue times the daily fee;
\* for monthly interest, amount_borrowed plus amount_to_receive plus that fee;
\* for installments, the sum over the installments not paid of amount plus the
\* installment's days overdue times the loan's daily fee.  Days overdue are 0
\* for a due date that is today or later.
C13_OutstandingBalanceByModality ==
    \A i \in 1..Len(loans) : \A d \in ClockDays \cup {today} :
        LET loan == loans[i]
            fee == IF loan.daily_late_fee_amount = Undefined THEN 0
                   ELSE loan.daily_late_fee_amount
            due(s) == calculateDaysOverdue(s, d) * fee
            open == {k \in 1..Len(loan.installments_details) :
                        loan.installments_details[k].status # "paid"}
            owed[S \in SUBSET open] ==
                IF S = {} THEN 0
                ELSE LET k == CHOOSE x \in S : TRUE
                     IN  loan.installments_details[k].amount
                         + due(loan.installments_details[k].due_date)
                         + owed[S \ {k}]
        IN  (loan.status # "paid" /\ ~loan.is_archived)
            => calculateCurrentOutstandingBalance(loan, d) =
                 CASE loan.modality = PagamentoUnico ->
                          loan.amount_to_receive + due(loan.due_date)
                   [] loan.modality = JurosMensal ->
                          loan.amount_borrowed + loan.amount_to_receive + due(loan.due_date)
                   [] loan.modality = Parcelado -> owed[open]

\* an open installment loan with one installment paid and another overdue
C13_OverdueWithPaidInstallment ==
    \E i \in 1..Len(loans) :
        /\ loans[i].status # "paid" /\ ~loans[i].is_archived
        /\ loans[i].modality = Parcelado
        /\ \E k \in 1..Len(loans[i].installments_details) :
              loans[i].installments_details[k].status = "paid"
        /\ \E k \in 1..Len(loans[i].installments_details) :
              /\ loans[i].installments_details[k].status # "paid"
              /\ calculateDaysOverdue(loans[i].installments_details[k].due_date, today) > 0


C15_DueDateHistoryFollowsDatePart ==
    [][ ( /\ isModalOpen /\ editingLoan # NoLoan
          /\ editingLoan.modality # Parcelado
          /\ ~SubmitRejected(formData)
          /\ handleSubmit )
        => \A i \in 1..Len(loans) :
              loans[i].id = editingLoan.id
              => IF loans[i].due_date.day # loans'[i].due_date.day
                 THEN loans'[i].due_date_history =
                          Append(loans[i].due_date_history,
                                 [old_due_date |-> loans[i].due_date,
                                  new_due_date |-> loans'[i].due_date,
                                  change_date |-> today])
                 ELSE loans'[i].due_date_history = loans[i].due_date_history
      ]_vars

\* a loan whose due date was stored with a time of day has been saved with the
\* same date typed into the form, and no entry was logged
C15_SameDateOtherStringNotLogged ==
    \E i \in 1..Len(loans) :
        /\ loans[i].modality = JurosMensal
        /\ loans[i].interest_payments_history # <<>>
        /\ loans[i].due_date = BareDate(Day20250131)
        /\ loans[i].due_date_history = <<>>


\* C16: adding a promise appends one entry {date, note, promised_due_date} to
\* the end of the loan's promise_history and overwrites its due_date with the
\* promised date; due_date_history, every other field of the loan and every
\* other loan are left as they were.
C16_PromiseFrame ==
    [][ \A i \in 1..Len(loans) : \A d \in FormDays :
          handleAddPromise(i, d)
          => /\ Len(loans') = Len(loans)
             /\ loans'[i].promise_history =
                    Append(loans[i].promise_history,
                           [date |-> today, note |-> "",
                            promised_due_date |-> BareDate(d)])
             /\ loans'[i].due_date = BareDate(d)
             /\ loans'[i].due_date_history = loans[i].due_date_history
             /\ loans'[i] = [loans[i] EXCEPT !.promise_history = loans'[i].promise_history,
                                             !.due_date = loans'[i].due_date]
             /\ \A j \in 1..Len(loans) : j # i => loans'[j] = loans[j]
      ]_vars

\* two loans on the page: the newer one has a second promise on record, no
\* due_date_history, and the promised date as its due date
C16_SecondPromiseBesideAnotherLoan ==
    /\ Len(loans) = 2
    /\ Len(loans[1].promise_history) = 2
    /\ loans[1].due_date = loans[1].promise_history[2].promised_due_date
    /\ loans[1].due_date # SeedForm(PagamentoUnico, hostTZ).due_date
    /\ loans[1].due_date_history = <<>>


\* C17: a validation failure changes neither the loans nor the transactions:
\* submitting the loan form without a client, a principal, a due date or an
\* account, or as an installment loan without a schedule, and confirming a
\* payment with no account selected.
C17_ValidationFailureChangesNothing ==
    [][ /\ ( ( /\ isModalOpen
               /\ \/ formData.clientId = ""
                  \/ formData.amount_borrowed \in {Undefined, 0}
                  \/ formData.due_date \in {NoDate, EmptyDate}
                  \/ formData.account_id = ""
                  \/ ( /\ formData.modality = Parcelado
                       /\ formData.installments_details = <<>> )
               /\ handleSubmit )
             => /\ UNCHANGED <<loans, transactions>>
                /\ alertShown' \in {AlertRequiredFields, AlertNoSchedule} )
        /\ \A i \in 1..Len(loans) : \A d \in PaymentDays : \A k \in 0..3 :
           \A t \in {"interest_only", "full"} :
              handleReceivePayment(i, d, "", k, t)
              => /\ UNCHANGED <<loans, transactions>>
                 /\ alertShown' = AlertNoAccount
      ]_vars

\* the form of an edit was rejected for the missing account and the edited loan
\* is still in the collection as it was when the form was opened
C17_RejectedEditLeftLoanAlone ==
    /\ alertShown = AlertRequiredFields
    /\ isModalOpen
    /\ editingLoan # NoLoan
    /\ formData.account_id = "" /\ formData.clientId # ""
    /\ \E i \in 1..Len(loans) : loans[i] = editingLoan


\* C18: a loan is created only with amount_borrowed strictly greater than 0:
\* no loan with a zero or negative principal is added to the loan collection or
\* debited to an account.
C18_CreatedLoanHasPositivePrincipal ==
    [][ ( /\ isModalOpen /\ editingLoan = NoLoan
          /\ handleSubmit
          /\ Len(loans') = Len(loans) + 1 )
        => /\ loans'[1].amount_borrowed > 0
           /\ transactions'[1].type = "debit" => transactions'[1].amount > 0
      ]_vars


\* C19: saving a new loan records exactly one debit, on the loan's account_id,
\* for amount_borrowed, dated the loan's origination date; a payment records
\* exactly one credit, on the chosen account, for the amount paid, dated the
\* payment date; saving an edit, a promise, archiving, restoring and deleting
\* record no transaction and remove none.
C19_OneTransactionPerCreationAndPayment ==
    [][ /\ ( ( /\ isModalOpen /\ editingLoan = NoLoan
               /\ handleSubmit
               /\ Len(loans') = Len(loans) + 1 )
             => /\ Len(transactions') = Len(transactions) + 1
                /\ Tail(transactions') = transactions
                /\ transactions'[1].type = "debit"
                /\ transactions'[1].accountId = loans'[1].account_id
                /\ transactions'[1].amount = loans'[1].amount_borrowed
                /\ transactions'[1].date = loans'[1].date )
        /\ \A i \in 1..Len(loans) : \A d \in PaymentDays : \A k \in 0..3 :
           \A t \in {"interest_only", "full"} :
              handleReceivePayment(i, d, "acc-1", k, t)
              => /\ Len(transactions') = Len(transactions) + 1
                 /\ Tail(transactions') = transactions
                 /\ transactions'[1].type = "credit"
                 /\ transactions'[1].accountId = "acc-1"
                 /\ transactions'[1].amount = ProposedAmount(loans[i], k, t, today)
                 /\ transactions'[1].date = BareDate(d)
        /\ ( (isModalOpen /\ editingLoan # NoLoan /\ handleSubmit)
             => transactions' = transactions )
        /\ \A i \in 1..Len(loans) :
              ( \/ \E d \in FormDays : handleAddPromise(i, d)
                \/ handleArchiveLoan(i)
                \/ handleRestoreLoan(i)
                \/ handlePermanentDeleteLoan(i) )
              => transactions' = transactions
      ]_vars

\* a loan was saved from the form and debited, a payment was credited after
\* that, and the saved loan was archived and deleted: the debit and the credit
\* are still on record
C19_DebitAndCreditOutliveTheLoan ==
    /\ Len(transactions) = 3
    /\ transactions[1].type = "credit"
    /\ transactions[2].type = "debit"
    /\ Len(deletionHistory) = 2
    /\ Len(loans) = 1 /\ loans[1].id = 1


\* C20: the credit of a payment carries the interest tag exactly when the
\* payment is an interest-only payment on a monthly-interest loan, and an
\* installment number exactly when an installment of an installment loan was
\* paid; the credit of a payment on a single-payment loan carries neither.
C20_CreditTagsFollowThePayment ==
    [][ \A i \in 1..Len(loans) : \A d \in PaymentDays : \A k \in 0..3 :
        \A t \in {"interest_only", "full"} :
           handleReceivePayment(i, d, "acc-1", k, t)
           => LET credit == transactions'[1]
              IN  /\ credit.interest
                       <=> (loans[i].modality = JurosMensal /\ t = "interest_only")
                  /\ (credit.installment # 0)
                       <=> (loans[i].modality = Parcelado /\ k # 0)
                  /\ loans[i].modality = PagamentoUnico
                       => (~credit.interest /\ credit.installment = 0)
      ]_vars


\* C21: an archived loan is in none of the status views (open, paid, pending,
\* overdue) and in none of the dashboard's aggregates (pending and overdue
\* loans, open count, total receivable); it is shown under the 'archived'
\* filter only.
C21_ArchivedLoanOnlyInArchivedView ==
    \A i \in 1..Len(loans) :
        loans[i].is_archived
        => /\ \A f \in StatusFilters \ {"archived"} : i \notin filteredLoans(loans, f, today)
           /\ i \in filteredLoans(loans, "archived", today)
           /\ i \notin openLoans(loans)
           /\ i \notin pendingLoans(loans, today)
           /\ i \notin overdueLoans(loans, today)
           /\ totalReceivables(loans)
                = totalReceivables(SelectSeq(loans, LAMBDA l : ~l.is_archived))


\* C22: archiving a loan changes nothing but its is_archived flag and appends
\* exactly one audit entry {type loan, action archived}; permanent deletion
\* removes exactly that loan and appends exactly one entry with action
\* deleted; restoring appends none; no step ever shortens or rewrites the
\* deletion history, and only archiving and deleting extend it.
C22_ArchiveDeleteRestoreFrame ==
    [][ /\ Len(deletionHistory') >= Len(deletionHistory)
        /\ SubSeq(deletionHistory', 1, Len(deletionHistory)) = deletionHistory
        /\ deletionHistory' # deletionHistory
           => \E i \in 1..Len(loans) : handleArchiveLoan(i) \/ handlePermanentDeleteLoan(i)
        /\ \A i \in 1..Len(loans) :
             /\ handleArchiveLoan(i)
                => /\ loans' = [loans EXCEPT ![i].is_archived = TRUE]
                   /\ Len(deletionHistory') = Len(deletionHistory) + 1
                   /\ deletionHistory'[Len(deletionHistory')].type = "loan"
                   /\ deletionHistory'[Len(deletionHistory')].action = "archived"
                   /\ deletionHistory'[Len(deletionHistory')].name = loans[i].clientName
             /\ handlePermanentDeleteLoan(i)
                => /\ loans' = SubSeq(loans, 1, i - 1) \o SubSeq(loans, i + 1, Len(loans))
                   /\ Len(deletionHistory') = Len(deletionHistory) + 1
                   /\ deletionHistory'[Len(deletionHistory')].type = "loan"
                   /\ deletionHistory'[Len(deletionHistory')].action = "deleted"
                   /\ deletionHistory'[Len(deletionHistory')].name = loans[i].clientName
             /\ handleRestoreLoan(i)
                => /\ loans' = [loans EXCEPT ![i].is_archived = FALSE]
                   /\ deletionHistory' = deletionHistory
      ]_vars

\* a loan was archived and then deleted for good while another loan, with a
\* debit on the ledger, stayed on the page
C22_DeletedBesideSurvivingLoan ==
    /\ Len(deletionHistory) = 2
    /\ deletionHistory[1].action = "archived"
    /\ deletionHistory[2].action = "deleted"
    /\ Len(loans) = 1
    /\ ~loans[1].is_archived


\* C23: promise_history, due_date_history and interest_payments_history are
\* append-only: over every step (a payment, a promise, an edit saved from a
\* form that was opened before other changes were applied) each log of a loan
\* that still exists has its value before the step as a prefix.
C23_HistoryLogsAreAppendOnly ==
    [][ \A i \in 1..Len(loans) : \A j \in 1..Len(loans') :
          loans[i].id = loans'[j].id
          => /\ Len(loans[i].promise_history) <= Len(loans'[j].promise_history)
             /\ SubSeq(loans'[j].promise_history, 1, Len(loans[i].promise_history))
                    = loans[i].promise_history
             /\ Len(loans[i].due_date_history) <= Len(loans'[j].due_date_history)
             /\ SubSeq(loans'[j].due_date_history, 1, Len(loans[i].due_date_history))
                    = loans[i].due_date_history
             /\ Len(loans[i].interest_payments_history)
                    <= Len(loans'[j].interest_payments_history)
             /\ SubSeq(loans'[j].interest_payments_history, 1,
                       Len(loans[i].interest_payments_history))
                    = loans[i].interest_payments_history
      ]_vars


\* C24: whenever amount_borrowed or interest_rate changes in the loan form,
\* amount_to_receive becomes amount_borrowed x interest_rate / 100 for a
\* monthly-interest loan and amount_borrowed x (1 + interest_rate / 100) for
\* the other two modalities, and 0 while either input is missing.
C24_AmountToReceiveFollowsPrincipalAndRate ==
    [][ \A u \in FormUpdates :
          (u[1] \in {"amount_borrowed", "interest_rate"} /\ handleFormChange(u[1], u[2]))
          => LET f == formData'
             IN  /\ f[u[1]] = u[2]
                 /\ IF f.amount_borrowed = Undefined \/ f.interest_rate = Undefined
                    THEN f.amount_to_receive = 0
                    ELSE IF f.modality = JurosMensal
                         THEN 100 * f.amount_to_receive
                                = f.amount_borrowed * f.interest_rate
                         ELSE 100 * f.amount_to_receive
                                = f.amount_borrowed * (100 + f.interest_rate)
      ]_vars

\* the form of a monthly-interest loan after its principal was changed to 2.00
\* at 10 %: 0.20 to receive
C24_MonthlyInterestOnNewPrincipal ==
    /\ isModalOpen
    /\ formData.modality = JurosMensal
    /\ formData.amount_borrowed = 200
    /\ formData.interest_rate = 10
    /\ formData.amount_to_receive = 20


\* C25: schedule generation changes the form state only when the modality is
\* installment, installments >= 1, amount_to_receive > 0 and a first due date
\* is present; with any other inputs it completes and leaves the form state
\* unchanged.
C25_GenerationNeedsValidInputs ==
    [][ \A c \in BOOLEAN :
          handleGenerateInstallments(c)
          => /\ appCrashed' = appCrashed
             /\ formData' # formData
                => /\ formData.modality = Parcelado
                   /\ formData.installments # Undefined /\ formData.installments >= 1
                   /\ formData.amount_to_receive # Undefined
                   /\ formData.amount_to_receive > 0
                   /\ HasDate(formData.due_date)
      ]_vars


\* C26: regeneration replaces the whole schedule: afterwards every
\* installment is pending with no payment data, the installment numbers are
\* 1..N in order, the loan's due_date is the last installment's due date and
\* its status is pending; when paid installments exist and the user declines
\* the confirmation, the schedule, due_date and status are unchanged.
C26_RegenerationReplacesSchedule ==
    [][ \A c \in BOOLEAN :
          handleGenerateInstallments(c)
          => LET hasPaid == \E k \in 1..Len(formData.installments_details) :
                                formData.installments_details[k].status = "paid"
                 d == formData'.installments_details
             IN  IF hasPaid /\ ~c
                 THEN /\ d = formData.installments_details
                      /\ formData'.due_date = formData.due_date
                      /\ formData'.status = formData.status
                 ELSE ( /\ formData.installments # Undefined /\ formData.installments >= 1
                        /\ formData.amount_to_receive # Undefined
                        /\ formData.amount_to_receive # 0
                        /\ HasDate(formData.due_date) )
                      => /\ Len(d) = formData.installments
                         /\ \A k \in 1..Len(d) :
                              /\ d[k].installment_number = k
                              /\ d[k].status = "pending"
                              /\ d[k].payment_date = NoDate
                              /\ d[k].amount_paid = Undefined
                         /\ formData'.due_date = d[Len(d)].due_date
                         /\ formData'.status = "pending"
      ]_vars

\* the form of a saved installment loan after one edit and a regeneration:
\* the new schedule starts on what was the loan's final due date, and all of
\* it is pending
C26_ScheduleRegeneratedInEditForm ==
    /\ isModalOpen /\ editingLoan # NoLoan
    /\ editsLeft = 0
    /\ formData.modality = Parcelado
    /\ Len(formData.installments_details) = 2
    /\ ParseLocalMidnight(formData.installments_details[1].due_date)
         = ParseLocalMidnight(editingLoan.due_date)
    /\ \A k \in 1..2 : formData.installments_details[k].status = "pending"
    /\ formData.due_date = formData.installments_details[2].due_date
    /\ formData.due_date # editingLoan.due_date


\* C27: every saved installment-modality loan has exactly `installments`
\* entries in installments_details, numbered 1..installments without gaps or
\* duplicates, also when the installment count was changed in the form after
\* the schedule was generated.
C27_ScheduleLengthIsInstallmentCount ==
    \A i \in 1..Len(loans) :
        loans[i].modality = Parcelado
        => /\ Len(loans[i].installments_details) = loans[i].installments
           /\ \A k \in 1..Len(loans[i].installments_details) :
                  loans[i].installments_details[k].installment_number = k


\* C28: after any sequence of recorded payments and installment edits in the
\* loan form, an installment of a saved loan has payment_date and amount_paid
\* set if and only if its status is paid.
C28_PaymentDataIffPaid ==
    \A i \in 1..Len(loans) :
        \A k \in 1..Len(loans[i].installments_details) :
            LET inst == loans[i].installments_details[k]
            IN  /\ (inst.status = "paid")
                     <=> (HasDate(inst.payment_date) /\ inst.amount_paid # Undefined)
                /\ (inst.status # "paid")
                     => (~HasDate(inst.payment_date) /\ inst.amount_paid = Undefined)


\* C29: in the loans list every non-archived loan is in exactly one of the
\* 'open' and 'paid' views, and every loan of the 'open' view is in exactly
\* one of the 'pending' and 'overdue' views, whatever its stored status and
\* the states of its installments.
C29_ViewsPartitionTheLoans ==
    \A i \in 1..Len(loans) :
        /\ ~loans[i].is_archived
           => (i \in filteredLoans(loans, "open", today))
                 # (i \in filteredLoans(loans, "paid", today))
        /\ i \in filteredLoans(loans, "open", today)
           => (i \in filteredLoans(loans, "pending", today))
                 # (i \in filteredLoans(loans, "overdue", today))


\* C30: after any sequence of account operations (archive-or-delete, restore,
\* permanent delete) every loan's account_id and every transaction's accountId
\* is the id of an account of the collection: an account in use is never
\* removed.
C30_AccountsInUseAreKept ==
    /\ \A i \in 1..Len(loans) :
          \E a \in 1..Len(accounts) : accounts[a].id = loans[i].account_id
    /\ \A k \in 1..Len(transactions) :
          \E a \in 1..Len(accounts) : accounts[a].id = transactions[k].accountId

=============================================================================
